---------------------------- MODULE Spec2Model ----------------------------
(***************************************************************************)
(* RollCall.ino: an ESP32 polls an MFRC522 card reader and, on each card   *)
(* arrival, increments one student's attendance cell in a Google sheet.    *)
(* setup() runs once, then loop() runs forever.  The sheet, the reader,    *)
(* WiFi and the Sheets client are external; every answer they give is an   *)
(* input of the action that asks.                                          *)
(***************************************************************************)
EXTENDS Integers, Sequences, FiniteSets, TLC

VARIABLES
    pc,                  \* "setup" before setup() has run, "loop" afterwards
    isSystemInitialized, \* the global of line 53
    cardPresent,         \* the static local of loop(), line 235
    sheet,               \* Sheet1 of the remote spreadsheet: a sequence of rows
    calls,               \* the calls the last handler run made, in order
    event,               \* the card event of the last loop() iteration
    result,              \* what the last updateAttendance() run reported
    pre,                 \* cardPresent and sheet when the last handler run began
    scans,               \* number of updateAttendance() runs so far
    run,                 \* observer: the current maximal run of "present" samples
    scen,                \* observer: events along the poll scenario of the spec
    streak,              \* observer: consecutive successful increments of one student
    twin,                \* a second run of the program, given the same answers
                         \* but cards with other serials
    race,                \* two updaters that run side by side: where each is,
                         \* its student and its local currentCount
    phys,                \* the card on the reader, and the events and polls
                         \* since it was put there or taken away
    emitted              \* observer: the last event that was emitted, and
                         \* whether two events of one kind ever followed
                         \* each other

vars == <<pc, isSystemInitialized, cardPresent, sheet, calls, event, result,
          pre, scans, run, scen, streak, twin, race, phys, emitted>>

----------------------------------------------------------------------------
(* Program constants and model bounds *)

MAX_STUDENTS == 5

WIFI_MAX_ATTEMPTS == 20

\* at most this many updateAttendance() runs in one behaviour
MaxScans == 2

\* at most this many append requests of initializeSpreadsheet() fail
MaxAppendFailures == 1

----------------------------------------------------------------------------
(* Cell text.  A cell is a sequence of tokens: a one-character string for  *)
(* a digit, sign or blank, or one opaque word for other text.              *)

Digits == <<"0", "1", "2", "3", "4", "5", "6", "7", "8", "9">>

IsDigit(ch) == \E d \in 1..10 : Digits[d] = ch

DigitVal(ch) == (CHOOSE d \in 1..10 : Digits[d] = ch) - 1

RECURSIVE FormatNat(_)
FormatNat(n) ==
    IF n < 10 THEN <<Digits[n + 1]>>
    ELSE Append(FormatNat(n \div 10), Digits[(n % 10) + 1])

\* Arduino String(int): decimal digits, a leading '-' when negative
StringOfInt(n) == IF n < 0 THEN <<"-">> \o FormatNat(0 - n) ELSE FormatNat(n)

RECURSIVE SkipBlanks(_)
SkipBlanks(s) ==
    IF s # <<>> /\ Head(s) = " " THEN SkipBlanks(Tail(s)) ELSE s

RECURSIVE ParseDigits(_, _)
ParseDigits(s, acc) ==
    IF s = <<>> \/ ~IsDigit(Head(s)) THEN acc
    ELSE ParseDigits(Tail(s), acc * 10 + DigitVal(Head(s)))

\* Arduino String::toInt() (atol): blanks, an optional sign, then the
\* leading digits; 0 when there are none
toInt(s) ==
    LET t == SkipBlanks(s) IN
    IF t = <<>> THEN 0
    ELSE IF Head(t) = "-" THEN 0 - ParseDigits(Tail(t), 0)
    ELSE IF Head(t) = "+" THEN ParseDigits(Tail(t), 0)
    ELSE ParseDigits(t, 0)

Text(w) == <<w>>

lastNames == <<"Smith", "Johnson", "Williams", "Brown", "Jones">>

firstNames == <<"Emma", "Liam", "Olivia", "Noah", "Ava">>

----------------------------------------------------------------------------
(* The remote sheet: rows of three cells (columns A, B, C) *)

EmptyCell == <<>>

EmptyRow == <<EmptyCell, EmptyCell, EmptyCell>>

HeaderRow == <<Text("Last Name"), Text("First Name"), Text("Attendance")>>

StudentRow(i, count) ==
    <<Text(lastNames[i + 1]), Text(firstNames[i + 1]), StringOfInt(count)>>

\* the text of cell C<row>; empty when the sheet has no such row
CellC(sh, row) == IF row \in 1..Len(sh) THEN sh[row][3] ELSE EmptyCell

\* values.update on the single cell C<row>: the sheet grows to hold it
SetCellC(sh, row, text) ==
    [r \in 1..(IF row > Len(sh) THEN row ELSE Len(sh)) |->
        IF r = row
        THEN <<(IF r <= Len(sh) THEN sh[r][1] ELSE EmptyCell),
               (IF r <= Len(sh) THEN sh[r][2] ELSE EmptyCell),
               text>>
        ELSE IF r <= Len(sh) THEN sh[r] ELSE EmptyRow]

Range(cols, row) == [cols |-> cols, row |-> row]

NoRange == Range("", 0)

\* one entry of a call log: the operation, the student it is for, the range
\* and text of a remote request, and the answer
Call(op, id, range, value, ok) ==
    [op |-> op, id |-> id, range |-> range, value |-> value, ok |-> ok]

RemoteOps == {"get", "update", "append", "clear"}

NoResult == [kind |-> "None", count |-> 0]


----------------------------------------------------------------------------
(* The Sheets service.  A request that fails leaves the sheet as it was.   *)

\* values.get of one cell: the response holds values/[0]/[0] only when the
\* request succeeded and the cell is not empty
RemoteGet(sh, range, ok) ==
    [ok |-> ok,
     hasValue |-> ok /\ CellC(sh, range.row) # EmptyCell,
     stringValue |-> IF ok THEN CellC(sh, range.row) ELSE EmptyCell]

\* values.update of one cell
RemoteUpdate(sh, range, text, ok) ==
    IF ok THEN SetCellC(sh, range.row, text) ELSE sh

\* values.append to A:C: the row goes below the last row of the table
RemoteAppend(sh, row, ok) == IF ok THEN Append(sh, row) ELSE sh

\* values.clear of A:Z
RemoteClear(sh, ok) == IF ok THEN <<>> ELSE sh

----------------------------------------------------------------------------
(* initializeWiFi(): upAt is the number of the WiFi.status() call that     *)
(* first answers WL_CONNECTED (0: never).                                  *)

Connected(upAt, statusCall) == upAt # 0 /\ statusCall >= upAt

RECURSIVE WiFiWait(_, _)
WiFiWait(upAt, n) ==
    IF ~Connected(upAt, n + 1) /\ n < WIFI_MAX_ATTEMPTS
    THEN WiFiWait(upAt, n + 1)
    ELSE n

\* the while loop asks WiFi.status() attempts + 1 times and line 77 asks it
\* once more
initializeWiFi(upAt) ==
    LET n == WiFiWait(upAt, 0) IN
    [ok |-> Connected(upAt, n + 2), attempts |-> n,
     calls |-> [k \in 1..(n + 2) |->
                   Call("WiFi.status", 0, NoRange, EmptyCell,
                        Connected(upAt, k))]]

\* initializeGoogleSheets() returns what GSheet.ready() answers
initializeGoogleSheets(ready) ==
    [ok |-> ready, calls |-> <<Call("ready", 0, NoRange, EmptyCell, ready)>>]

----------------------------------------------------------------------------
(* Spreadsheet operations *)

clearSpreadsheetData(sh, ok) ==
    [sheet |-> RemoteClear(sh, ok),
     calls |-> <<Call("clear", 0, Range("A:Z", 0), EmptyCell, ok)>>]

addHeaders(sh, ok) ==
    [sheet |-> RemoteAppend(sh, HeaderRow, ok),
     calls |-> <<Call("append", 0, Range("A:C", 0), HeaderRow[3], ok)>>]

\* the for loop of initializeSpreadsheet(), from student i on
RECURSIVE AppendStudents(_, _, _)
AppendStudents(st, i, appendOk) ==
    IF i < MAX_STUDENTS
    THEN AppendStudents(
             [sheet |-> RemoteAppend(st.sheet, StudentRow(i, 0), appendOk[i]),
              calls |-> Append(st.calls,
                               Call("append", i, Range("A:C", 0),
                                    StringOfInt(0), appendOk[i]))],
             i + 1, appendOk)
    ELSE st

initializeSpreadsheet(sh, clearOk, headerOk, appendOk) ==
    LET c == clearSpreadsheetData(sh, clearOk)
        h == addHeaders(c.sheet, headerOk)
    IN  AppendStudents([sheet |-> h.sheet, calls |-> c.calls \o h.calls],
                       0, appendOk)

----------------------------------------------------------------------------
(* Attendance management *)

\* faulty variant: the upper limit of the range check is off by one
ValidIndex_offByOne(studentIndex) ==
    studentIndex >= 0 /\ studentIndex <= MAX_STUDENTS

\* the range check of line 164
ValidIndex(studentIndex) == studentIndex >= 0 /\ studentIndex < MAX_STUDENTS

\* faulty variant: the header row is not skipped
CellRange_noHeader(studentIndex) == Range("C", studentIndex + 1)

\* "Sheet1!C" + String(studentIndex + 2)
CellRange(studentIndex) == Range("C", studentIndex + 2)

\* lines 177-183: 0 unless the read succeeded and holds a value
CurrentCount(readData) ==
    IF readData.ok /\ readData.hasValue
    THEN toInt(readData.stringValue)
    ELSE 0

\* faulty variant: the count read is written back as it is
UpdateData_noIncrement(currentCount) == StringOfInt(currentCount)

\* the text written: String(currentCount + 1)
UpdateData(currentCount) == StringOfInt(currentCount + 1)

\* faulty variant: the outcome of the write is not looked at
Report_alwaysOk(updateSuccess, currentCount) ==
    [kind |-> "Ok", count |-> currentCount + 1]

\* lines 194-200: what the run prints
Report(updateSuccess, currentCount) ==
    IF updateSuccess
    THEN [kind |-> "Ok", count |-> currentCount + 1]
    ELSE [kind |-> "RemoteWriteFailed", count |-> 0]

\* faulty variant: an update that failed is requested once more
updateAttendance_retryWrite(sh, studentIndex, getOk, updateOk) ==
    LET entered == Call("updateAttendance", studentIndex, NoRange, EmptyCell, TRUE)
        cellRange == CellRange(studentIndex)
        currentCount == CurrentCount(RemoteGet(sh, cellRange, getOk))
        updateData == UpdateData(currentCount)
        request == <<entered,
                     Call("get", studentIndex, cellRange, EmptyCell, getOk),
                     Call("update", studentIndex, cellRange, updateData,
                          updateOk)>>
    IN
    IF ~ValidIndex(studentIndex)
    THEN [sheet |-> sh,
          calls |-> <<entered>>,
          result |-> [kind |-> "InvalidStudent", count |-> 0]]
    ELSE IF updateOk
    THEN [sheet |-> RemoteUpdate(sh, cellRange, updateData, TRUE),
          calls |-> request,
          result |-> Report(TRUE, currentCount)]
    ELSE [sheet |-> RemoteUpdate(sh, cellRange, updateData, TRUE),
          calls |-> request \o <<Call("update", studentIndex, cellRange,
                                      updateData, TRUE)>>,
          result |-> Report(TRUE, currentCount)]

\* faulty variant: a failed read ends the run before anything is written
updateAttendance_abortOnReadFailure(sh, studentIndex, getOk, updateOk) ==
    LET entered == Call("updateAttendance", studentIndex, NoRange, EmptyCell, TRUE)
        cellRange == CellRange(studentIndex)
        currentCount == CurrentCount(RemoteGet(sh, cellRange, getOk))
        updateData == UpdateData(currentCount)
    IN
    IF ~ValidIndex(studentIndex)
    THEN [sheet |-> sh,
          calls |-> <<entered>>,
          result |-> [kind |-> "InvalidStudent", count |-> 0]]
    ELSE IF ~getOk
    THEN [sheet |-> sh,
          calls |-> <<entered,
                      Call("get", studentIndex, cellRange, EmptyCell, getOk)>>,
          result |-> [kind |-> "RemoteReadFailed", count |-> 0]]
    ELSE [sheet |-> RemoteUpdate(sh, cellRange, updateData, updateOk),
          calls |-> <<entered,
                      Call("get", studentIndex, cellRange, EmptyCell, getOk),
                      Call("update", studentIndex, cellRange, updateData,
                           updateOk)>>,
          result |-> Report(updateOk, currentCount)]

updateAttendance(sh, studentIndex, getOk, updateOk) ==
    LET entered == Call("updateAttendance", studentIndex, NoRange, EmptyCell, TRUE)
    IN
    IF ~ValidIndex(studentIndex)
    THEN [sheet |-> sh,
          calls |-> <<entered>>,
          result |-> [kind |-> "InvalidStudent", count |-> 0]]
    ELSE
        LET cellRange == CellRange(studentIndex)
            readData == RemoteGet(sh, cellRange, getOk)
            currentCount == CurrentCount(readData)
            updateData == UpdateData(currentCount)
        IN  [sheet |-> RemoteUpdate(sh, cellRange, updateData, updateOk),
             calls |-> <<entered,
                         Call("get", studentIndex, cellRange, EmptyCell, getOk),
                         Call("update", studentIndex, cellRange, updateData,
                              updateOk)>>,
             result |-> Report(updateOk, currentCount)]

\* line 207: what random(MAX_STUDENTS) can answer
RandomRange == 0..(MAX_STUDENTS - 1)

\* the serials of the cards that can be put on the reader
CardSerials == {"serialA", "serialB"}

OtherSerial(uid) == CHOOSE u \in CardSerials : u # uid

\* faulty variant: the updater is run twice for one card
handleNewCard_twice(sh, uid, randomStudent, getOk, updateOk) ==
    LET a == updateAttendance(sh, randomStudent, getOk, updateOk)
        b == updateAttendance(a.sheet, randomStudent, getOk, updateOk)
    IN  [sheet |-> b.sheet, calls |-> a.calls \o b.calls, result |-> b.result]

\* faulty variant: the student index is counted from 1
handleNewCard_oneBased(sh, uid, randomStudent, getOk, updateOk) ==
    updateAttendance(sh, randomStudent + 1, getOk, updateOk)

\* faulty variant: the student is picked by the serial of the card
handleNewCard_bySerial(sh, uid, randomStudent, getOk, updateOk) ==
    updateAttendance(sh, IF uid = "serialA" THEN 0 ELSE 1, getOk, updateOk)

\* uid is the serial PICC_ReadCardSerial() left in rfidReader.uid, which
\* handleNewCard() does not read; random(MAX_STUDENTS) answers randomStudent
handleNewCard(sh, uid, randomStudent, getOk, updateOk) ==
    updateAttendance(sh, randomStudent, getOk, updateOk)

----------------------------------------------------------------------------
(* One run of loop().  in: what the environment answers when asked.        *)

ReaderCall(op, ok) == Call(op, 0, NoRange, EmptyCell, ok)

\* faulty variant: loop() does not look at the flag
LoopInitialized_ignored(init) == TRUE

\* line 227: loop() does nothing until setup() has set the flag
LoopInitialized(init) == init

\* faulty variant: the answer of ready() is not looked at
LoopReady_ignored(in) == TRUE

\* faulty variant: the test of ready() is inverted
LoopReady_inverted(in) == ~in.ready

\* line 229: the connectivity gate
LoopReady(in) == in.ready

\* faulty variant: a readable card is taken even while one is being processed
NewCardDetected_noDebounce(cp, in) == in.rawPresent /\ in.serialReadOk

\* line 238: a new card is taken only when none is being processed
NewCardDetected(cp, in) == ~cp /\ in.rawPresent /\ in.serialReadOk

\* faulty variant: the card is taken as gone without looking at the poll
CardRemoved_unpolled(cp, in) == cp

\* line 251: the card being processed is gone
CardRemoved(cp, in) == cp /\ ~in.rawPresent

\* the reader calls that the two conditions of lines 238 and 251 make when
\* neither holds: && and the else-if stop at the first operand that decides
IdlePolls(cp, in) ==
    IF cp THEN <<ReaderCall("PICC_IsNewCardPresent", in.rawPresent)>>
    ELSE IF in.rawPresent
    THEN <<ReaderCall("PICC_IsNewCardPresent", TRUE),
           ReaderCall("PICC_ReadCardSerial", in.serialReadOk)>>
    ELSE <<ReaderCall("PICC_IsNewCardPresent", FALSE)>>

\* faulty variant: the arrival does not set the flag
CardPresentOnArrival_unset == FALSE

\* line 239: cardPresent = true, before handleNewCard() is called
CardPresentOnArrival == TRUE

\* faulty variant: stop-crypto is left out
ReleaseCard_haltOnly == <<ReaderCall("PICC_HaltA", TRUE)>>

\* lines 244-245: the session with the card is released
ReleaseCard ==
    <<ReaderCall("PICC_HaltA", TRUE), ReaderCall("PCD_StopCrypto1", TRUE)>>

\* faulty variant: a failed update switches the system off
InitializedAfter_failStop(init, res) == init /\ res.kind = "Ok"

\* lines 238-249: whatever handleNewCard() reports, nothing assigns
\* isSystemInitialized
InitializedAfter(init, res) == init

loop(init, cp, sh, in) ==
    LET idle(c) == [isSystemInitialized |-> init,
                    cardPresent |-> cp, sheet |-> sh, calls |-> c,
                    event |-> "None", result |-> NoResult]
        readyCall == Call("ready", 0, NoRange, EmptyCell, in.ready)
    IN
    IF ~LoopInitialized(init) THEN idle(<<>>)
    ELSE IF ~LoopReady(in) THEN idle(<<readyCall>>)
    ELSE IF NewCardDetected(cp, in)
    THEN LET h == handleNewCard(sh, in.uid, in.randomStudent, in.getOk,
                                in.updateOk)
         IN  [isSystemInitialized |-> InitializedAfter(init, h.result),
              cardPresent |-> CardPresentOnArrival,
              sheet |-> h.sheet,
              calls |-> <<readyCall,
                          ReaderCall("PICC_IsNewCardPresent", in.rawPresent),
                          ReaderCall("PICC_ReadCardSerial", in.serialReadOk)>>
                        \o h.calls
                        \o ReleaseCard,
              event |-> "Arrived",
              result |-> h.result]
    ELSE IF CardRemoved(cp, in)
    THEN [isSystemInitialized |-> init,
          cardPresent |-> FALSE,
          sheet |-> sh,
          calls |-> <<readyCall,
                      ReaderCall("PICC_IsNewCardPresent", in.rawPresent)>>,
          event |-> "Removed",
          result |-> NoResult]
    ELSE idle(<<readyCall>> \o IdlePolls(cp, in))

----------------------------------------------------------------------------
(* setup().  in: what WiFi and the Sheets service answer.                  *)

\* faulty variant: the answer of initializeWiFi() is not looked at
setup_withoutWiFi(sh, in) ==
    LET w == initializeWiFi(in.upAt)
        g == initializeGoogleSheets(in.ready)
        s == initializeSpreadsheet(sh, in.clearOk, in.headerOk, in.appendOk)
    IN
    IF ~g.ok
    THEN [isSystemInitialized |-> FALSE, sheet |-> sh,
          calls |-> w.calls \o g.calls]
    ELSE [isSystemInitialized |-> TRUE, sheet |-> s.sheet,
          calls |-> w.calls \o g.calls \o s.calls]

setup(sh, in) ==
    LET w == initializeWiFi(in.upAt)
        g == initializeGoogleSheets(in.ready)
        s == initializeSpreadsheet(sh, in.clearOk, in.headerOk, in.appendOk)
    IN
    IF ~w.ok
    THEN [isSystemInitialized |-> FALSE, sheet |-> sh, calls |-> w.calls]
    ELSE IF ~g.ok
    THEN [isSystemInitialized |-> FALSE, sheet |-> sh,
          calls |-> w.calls \o g.calls]
    ELSE [isSystemInitialized |-> TRUE, sheet |-> s.sheet,
          calls |-> w.calls \o g.calls \o s.calls]

----------------------------------------------------------------------------
(* What a run's call log says *)

Entries(c, op) == SelectSeq(c, LAMBDA e : e.op = op)

RemoteRequests(c) == SelectSeq(c, LAMBDA e : e.op \in RemoteOps)

Polled(c) == Entries(c, "PICC_IsNewCardPresent") # <<>>

RawPresent(c) == \E i \in 1..Len(c) : c[i].op = "PICC_IsNewCardPresent" /\ c[i].ok

SerialReadOk(c) == \E i \in 1..Len(c) : c[i].op = "PICC_ReadCardSerial" /\ c[i].ok

\* the student's count as the sheet holds it at the cell the program addresses
StoredCount(sh, id) == toInt(CellC(sh, id + 2))

----------------------------------------------------------------------------
(* Observers.  They read what a run did and change nothing of the program. *)

NoRun == [arrived |-> 0, readOk |-> FALSE]

\* Arrived events and successful serial reads of the current maximal run of
\* "present" samples; an "absent" sample ends the run
RunNext(r, c, ev) ==
    LET base == IF Polled(c) /\ ~RawPresent(c) THEN NoRun ELSE r IN
    [arrived |-> base.arrived + (IF ev = "Arrived" THEN 1 ELSE 0),
     readOk |-> base.readOk \/ SerialReadOk(c)]

\* the poll scenario: absent, present and readable, present, present, absent
Scenario == <<[present |-> FALSE, readable |-> FALSE],
              [present |-> TRUE,  readable |-> TRUE],
              [present |-> TRUE,  readable |-> FALSE],
              [present |-> TRUE,  readable |-> FALSE],
              [present |-> FALSE, readable |-> FALSE]>>

Matches(c, k) ==
    /\ RawPresent(c) = Scenario[k].present
    /\ Scenario[k].readable => SerialReadOk(c)

\* the events of the polls that have followed the scenario so far; the
\* scenario starts at a poll taken with cardPresent = false
ScenNext(s, cpBefore, c, ev) ==
    IF ~Polled(c) THEN s
    ELSE IF Len(s) < Len(Scenario) /\ (Len(s) > 0 \/ ~cpBefore)
            /\ Matches(c, Len(s) + 1)
    THEN Append(s, ev)
    ELSE IF ~cpBefore /\ Matches(c, 1) THEN <<ev>>
    ELSE <<>>

\* no event has been emitted yet
NoEmitted == [last |-> "None", broken |-> FALSE]

\* broken: an event followed one of its own kind, or the first event was
\* Removed
EmittedNext(em, ev) ==
    IF ev = "None" THEN em
    ELSE [last |-> ev,
          broken |-> \/ em.broken
                     \/ ev = em.last
                     \/ (em.last = "None" /\ ev = "Removed")]

NoStreak == [id |-> 0, n |-> 0]

\* n: how many updateAttendance() runs in a row were for student id with
\* both requests succeeding, the first of them finding the count 0
StreakNext(st, shBefore, c) ==
    LET u == Entries(c, "updateAttendance")
        g == Entries(c, "get")
        w == Entries(c, "update")
    IN
    IF u = <<>> THEN st
    ELSE LET id == u[1].id
             success == /\ g # <<>> /\ g[1].ok
                        /\ w # <<>> /\ w[1].ok
         IN  IF success /\ st.n > 0 /\ st.id = id
             THEN [id |-> id, n |-> st.n + 1]
             ELSE IF success /\ CellC(shBefore, id + 2) = StringOfInt(0)
             THEN [id |-> id, n |-> 1]
             ELSE [id |-> id, n |-> 0]

----------------------------------------------------------------------------
(* The whole program: setup() once, then loop() for ever *)

\* a sheet a previous run left behind
OldCounts == <<9, 0, 2, 0, 0>>

OldSheet ==
    <<HeaderRow>> \o [i \in 1..MAX_STUDENTS |-> StudentRow(i - 1, OldCounts[i])]

FreshSheet ==
    <<HeaderRow>> \o [i \in 1..MAX_STUDENTS |-> StudentRow(i - 1, 0)]

PriorSheets == {<<>>, <<HeaderRow>>, OldSheet}

\* no card on the reader, and none has been there.  taken: a card has been
\* taken away; runs: the card has been on the reader through a run of loop()
\* of the initialized system (0 or 1); awayRuns: the card that was taken
\* has been away through such a run (0 or 1)
NoCard == [on |-> FALSE, taken |-> FALSE, runs |-> 0, awayRuns |-> 0,
           arrived |-> 0, fresh |-> FALSE,
           removed |-> 0, stale |-> FALSE]

InitCommon ==
    /\ phys = NoCard
    /\ emitted = NoEmitted
    /\ isSystemInitialized = FALSE
    /\ cardPresent = FALSE
    /\ calls = <<>>
    /\ event = "None"
    /\ result = NoResult
    /\ pre = [isSystemInitialized |-> FALSE, cardPresent |-> FALSE,
              sheet |-> sheet]
    /\ scans = 0
    /\ run = NoRun
    /\ scen = <<>>
    /\ streak = NoStreak
    /\ twin = [isSystemInitialized |-> FALSE, cardPresent |-> FALSE,
               sheet |-> sheet, requests |-> <<>>]

\* the program itself runs no updaters side by side
NoRace == [at |-> <<>>, studentIndex |-> <<>>, currentCount |-> <<>>]

Init ==
    /\ pc = "setup"
    /\ sheet \in PriorSheets
    /\ InitCommon
    /\ race = NoRace

\* The answers one run of loop() can get.  A serial read succeeds only on a
\* card that is present, and the student and the two request outcomes are
\* drawn only for a card that was read.  With ready() false, or with a card
\* being processed, loop() asks for none of these three: one choice of them
\* (student 0, both requests succeeding) stands for all.  The cards of this
\* run all have the first serial and those of the twin run the other one: no
\* variable of either run holds a serial, so exchanging the two runs gives
\* the other assignment.
LoopInputsOf(cp) ==
    {in \in [ready : BOOLEAN, rawPresent : BOOLEAN, serialReadOk : BOOLEAN,
             uid : CardSerials, randomStudent : RandomRange,
             getOk : BOOLEAN, updateOk : BOOLEAN] :
        /\ in.uid = "serialA"
        /\ in.serialReadOk => in.rawPresent
        /\ in.serialReadOk
              \/ (in.randomStudent = 0 /\ ~in.getOk /\ ~in.updateOk)
        /\ (in.serialReadOk /\ (cp \/ ~in.ready))
              => (in.randomStudent = 0 /\ in.getOk /\ in.updateOk)}

\* the two sets of answers, each built once
LoopInputsFree == LoopInputsOf(FALSE)

LoopInputsProcessing == LoopInputsOf(TRUE)

LoopInputs(cp) == IF cp THEN LoopInputsProcessing ELSE LoopInputsFree

\* The second run: its store and its two flags.  It is given the answers of
\* the first run, except that a card that is read has another serial.
TwinInputs(in) ==
    IF in.serialReadOk THEN [in EXCEPT !.uid = OtherSerial(in.uid)] ELSE in

TwinSetup(tw, in) ==
    LET r == setup(tw.sheet, in)
    IN  [isSystemInitialized |-> r.isSystemInitialized,
         cardPresent |-> tw.cardPresent,
         sheet |-> r.sheet,
         requests |-> RemoteRequests(r.calls)]

TwinLoop(tw, in) ==
    \* bound once: each of the four fields below reads it
    LET r == CHOOSE x \in {loop(tw.isSystemInitialized, tw.cardPresent,
                                tw.sheet, TwinInputs(in))} : TRUE
    IN  [isSystemInitialized |-> r.isSystemInitialized,
         cardPresent |-> r.cardPresent,
         sheet |-> r.sheet,
         requests |-> RemoteRequests(r.calls)]

Failures(headerOk, appendOk) ==
    Cardinality({i \in DOMAIN appendOk : ~appendOk[i]})
        + (IF headerOk THEN 0 ELSE 1)

Setup ==
    /\ pc = "setup"
    /\ \E upAt \in 0..(WIFI_MAX_ATTEMPTS + 3), ready, clearOk, headerOk \in BOOLEAN,
          appendOk \in [0..(MAX_STUDENTS - 1) -> BOOLEAN] :
          /\ Failures(headerOk, appendOk) <= MaxAppendFailures
          /\ \E in \in {[upAt |-> upAt, ready |-> ready,
                          clearOk |-> clearOk, headerOk |-> headerOk,
                          appendOk |-> appendOk]} :
               \E r \in {setup(sheet, in)} :
                 /\ isSystemInitialized' = r.isSystemInitialized
                 /\ sheet' = r.sheet
                 /\ calls' = r.calls
                 /\ twin' = TwinSetup(twin, in)
    /\ pc' = "loop"
    /\ event' = "None"
    /\ result' = NoResult
    /\ pre' = [isSystemInitialized |-> isSystemInitialized,
               cardPresent |-> cardPresent, sheet |-> sheet]
    /\ UNCHANGED <<cardPresent, scans, run, scen, streak, race, phys, emitted>>

\* one run of loop() that gets the answers in
LoopWith(in) ==
    /\ pc = "loop"
    /\ \E r \in {loop(isSystemInitialized, cardPresent, sheet, in)} :
          LET ran == Len(Entries(r.calls, "updateAttendance"))
          IN  /\ scans + ran <= MaxScans
              /\ cardPresent' = r.cardPresent
              /\ sheet' = r.sheet
              /\ calls' = r.calls
              /\ event' = r.event
              /\ result' = r.result
              /\ scans' = scans + ran
              /\ run' = RunNext(run, r.calls, r.event)
              /\ scen' = ScenNext(scen, cardPresent, r.calls, r.event)
              /\ streak' = StreakNext(streak, sheet, r.calls)
              /\ isSystemInitialized' = r.isSystemInitialized
              /\ emitted' = EmittedNext(emitted, r.event)
    /\ twin' = TwinLoop(twin, in)
    /\ pre' = [isSystemInitialized |-> isSystemInitialized,
               cardPresent |-> cardPresent, sheet |-> sheet]
    /\ UNCHANGED <<pc, race>>

Loop == \E in \in LoopInputs(cardPresent) : LoopWith(in) /\ UNCHANGED phys

Next == Setup \/ Loop

Spec == Init /\ [][Next]_vars

----------------------------------------------------------------------------
(* updateAttendance() on its own, called with any argument *)

UnitSheets == {<<>>, FreshSheet, OldSheet}

InitUpdater ==
    /\ pc = "unit"
    /\ sheet \in UnitSheets
    /\ InitCommon
    /\ race = NoRace

CallUpdateAttendance ==
    /\ pc = "unit"
    /\ scans < MaxScans
    /\ \E studentIndex \in (0 - 2)..(MAX_STUDENTS + 1), getOk, updateOk \in BOOLEAN :
          \E u \in {updateAttendance(sheet, studentIndex, getOk, updateOk)} :
              /\ sheet' = u.sheet
              /\ calls' = u.calls
              /\ result' = u.result
              /\ streak' = StreakNext(streak, sheet, u.calls)
    /\ scans' = scans + 1
    /\ pre' = [isSystemInitialized |-> isSystemInitialized,
               cardPresent |-> cardPresent, sheet |-> sheet]
    /\ UNCHANGED <<pc, isSystemInitialized, cardPresent, event, run, scen, twin,
                   race, phys, emitted>>

NextUpdater == CallUpdateAttendance

SpecUpdater == InitUpdater /\ [][NextUpdater]_vars

----------------------------------------------------------------------------
(* The program with a card that is put on the reader and taken away.  The  *)
(* reader answers what is there: PICC_IsNewCardPresent() and               *)
(* PICC_ReadCardSerial() succeed exactly when the card is on the reader.   *)

InitPhysical ==
    /\ pc = "setup"
    /\ sheet = <<>>
    /\ InitCommon
    /\ race = NoRace

PlaceCard ==
    /\ ~phys.on
    /\ phys' = [phys EXCEPT !.on = TRUE, !.runs = 0,
                            !.arrived = 0, !.fresh = FALSE]
    /\ UNCHANGED <<pc, isSystemInitialized, cardPresent, sheet, calls, event,
                   result, pre, scans, run, scen, streak, twin, race, emitted>>

TakeCard ==
    /\ phys.on
    /\ phys' = [phys EXCEPT !.on = FALSE, !.taken = TRUE, !.awayRuns = 0,
                            !.removed = 0, !.stale = FALSE]
    /\ UNCHANGED <<pc, isSystemInitialized, cardPresent, sheet, calls, event,
                   result, pre, scans, run, scen, streak, twin, race, emitted>>

\* the account of the card after a run of loop() that started with
\* isSystemInitialized = init and cardPresent = cp, made the calls c and
\* yielded the event ev
PhysAfterRun(ph, init, cp, c, ev) ==
    [ph EXCEPT
        !.runs = IF init /\ ph.on THEN 1 ELSE @,
        !.awayRuns = IF init /\ ~ph.on /\ ph.taken THEN 1 ELSE @,
        !.arrived = IF ev = "Arrived" /\ @ < 2 THEN @ + 1 ELSE @,
        !.removed = IF ev = "Removed" /\ @ < 2 THEN @ + 1 ELSE @,
        !.fresh = @ \/ (Polled(c) /\ ~cp /\ ph.on),
        !.stale = @ \/ (Polled(c) /\ cp /\ ~ph.on)]

LoopPhysical ==
    \E in \in LoopInputs(cardPresent) :
        /\ in.rawPresent = phys.on
        /\ in.serialReadOk = phys.on
        /\ LoopWith(in)
        /\ phys' = PhysAfterRun(phys, isSystemInitialized, cardPresent,
                                calls', event')

NextPhysical == Setup \/ PlaceCard \/ TakeCard \/ LoopPhysical

SpecPhysical == InitPhysical /\ [][NextPhysical]_vars

----------------------------------------------------------------------------
(* Two updaters side by side.  The program runs updateAttendance() from    *)
(* its one loop only; here two runs of lines 172-192 share the sheet, each *)
(* a step for its get and a step for its update, in any order.             *)

Updaters == 1..2

InitRace ==
    /\ pc = "race"
    /\ sheet \in UnitSheets
    /\ InitCommon
    /\ \E ids \in [Updaters -> RandomRange] :
          race = [at |-> [u \in Updaters |-> "get"],
                  studentIndex |-> ids,
                  currentCount |-> [u \in Updaters |-> 0]]

\* lines 172-183: the get and the reading of its answer into currentCount
RaceGet(u) ==
    /\ pc = "race"
    /\ race.at[u] = "get"
    /\ \E getOk \in BOOLEAN :
          LET cellRange == CellRange(race.studentIndex[u])
              readData == RemoteGet(sheet, cellRange, getOk)
          IN  /\ race' = [race EXCEPT !.at[u] = "update",
                                      !.currentCount[u] = CurrentCount(readData)]
              /\ calls' = Append(calls, Call("get", race.studentIndex[u],
                                             cellRange, EmptyCell, getOk))
    /\ UNCHANGED <<pc, isSystemInitialized, cardPresent, sheet, event, result,
                   pre, scans, run, scen, streak, twin, phys, emitted>>

\* faulty variant: the update reads the cell again and writes one more
RaceUpdate_atomic(u) ==
    /\ pc = "race"
    /\ race.at[u] = "update"
    /\ \E updateOk \in BOOLEAN :
          LET cellRange == CellRange(race.studentIndex[u])
              updateData ==
                  UpdateData(CurrentCount(RemoteGet(sheet, cellRange, TRUE)))
          IN  /\ sheet' = RemoteUpdate(sheet, cellRange, updateData, updateOk)
              /\ calls' = Append(calls, Call("update", race.studentIndex[u],
                                             cellRange, updateData, updateOk))
    /\ race' = [race EXCEPT !.at[u] = "done"]
    /\ UNCHANGED <<pc, isSystemInitialized, cardPresent, event, result,
                   pre, scans, run, scen, streak, twin, phys, emitted>>

\* lines 185-192: the update with the count that was read, plus one
RaceUpdate(u) ==
    /\ pc = "race"
    /\ race.at[u] = "update"
    /\ \E updateOk \in BOOLEAN :
          LET cellRange == CellRange(race.studentIndex[u])
              updateData == UpdateData(race.currentCount[u])
          IN  /\ sheet' = RemoteUpdate(sheet, cellRange, updateData, updateOk)
              /\ calls' = Append(calls, Call("update", race.studentIndex[u],
                                             cellRange, updateData, updateOk))
    /\ race' = [race EXCEPT !.at[u] = "done"]
    /\ UNCHANGED <<pc, isSystemInitialized, cardPresent, event, result,
                   pre, scans, run, scen, streak, twin, phys, emitted>>

RaceStep == \E u \in Updaters : RaceGet(u) \/ RaceUpdate(u)

\* the program, and next to it the two updaters on a sheet of their own
NextRace == Setup \/ Loop \/ RaceStep

SpecRace == (Init \/ InitRace) /\ [][NextRace]_vars

----------------------------------------------------------------------------
(* Properties *)

Students == 0..(MAX_STUDENTS - 1)

UpdaterRuns == Entries(calls, "updateAttendance")

Gets == Entries(calls, "get")

Updates == Entries(calls, "update")

\* the cell holds the decimal text of a count
HoldsCount(sh, id) ==
    LET t == CellC(sh, id + 2) IN
    t # EmptyCell /\ toInt(t) >= 0 /\ t = StringOfInt(toInt(t))

\* the cell's text starts with an integer
Parsable(t) ==
    LET x == SkipBlanks(t) IN
    /\ x # <<>>
    /\ \/ IsDigit(Head(x))
       \/ Head(x) \in {"-", "+"} /\ Len(x) > 1 /\ IsDigit(x[2])

\* the text of any cell; empty outside the sheet
Cell(sh, row, col) == IF row \in 1..Len(sh) THEN sh[row][col] ELSE EmptyCell

\* the last run was a run of loop() of an initialized system
LoopRan == pc = "loop" /\ isSystemInitialized /\ Entries(calls, "clear") = <<>>

\* C1: over the presence polls that loop() executes, a maximal run of
\* "present" samples has exactly one Arrived if it contains a successful
\* serial read and none otherwise; Removed is emitted exactly at a poll that
\* finds cardPresent = true and the card absent; no other event is emitted.
C1_OneEventPerRun ==
    /\ run.arrived = (IF run.readOk THEN 1 ELSE 0)
    /\ (event = "Removed")
          <=> (Polled(calls) /\ pre.cardPresent /\ ~RawPresent(calls))
    /\ (event = "Arrived") => (Polled(calls) /\ RawPresent(calls))

\* a run that had its Arrived goes on with a further "present" sample
C1_Witness ==
    /\ run.arrived = 1 /\ run.readOk
    /\ event = "None" /\ Polled(calls) /\ RawPresent(calls) /\ cardPresent

ExpectedEvents == <<"None", "Arrived", "None", "None", "Removed">>

\* C2: one debouncer step follows the transition table on (cardPresent,
\* rawPresent, serialReadOk); a failed serial read changes no state and emits
\* no event; the polls [absent, present and readable, present, present,
\* absent] taken from cardPresent = false yield [None, Arrived, None, None,
\* Removed].
C2_TransitionTable ==
    /\ Polled(calls) =>
          LET cp0 == pre.cardPresent
              raw == RawPresent(calls)
              rd  == SerialReadOk(calls)
          IN  /\ (~cp0 /\ raw /\ rd) => (cardPresent /\ event = "Arrived")
              /\ (~cp0 /\ raw /\ ~rd) =>
                    /\ ~cardPresent /\ event = "None"
                    /\ sheet = pre.sheet /\ RemoteRequests(calls) = <<>>
              /\ (~cp0 /\ ~raw) => (~cardPresent /\ event = "None")
              /\ (cp0 /\ raw) => (cardPresent /\ event = "None")
              /\ (cp0 /\ ~raw) => (~cardPresent /\ event = "Removed")
    /\ scen = SubSeq(ExpectedEvents, 1, Len(scen))

\* the whole scenario has been polled
C2_Witness == scen = ExpectedEvents

\* C3: when the student's cell holds a count c and both requests succeed,
\* updateAttendance reports c + 1 and leaves c + 1 in the cell; n successful
\* increments of one student in a row, the first finding 0, report 1..n and
\* leave n.
C3_IncrementYieldsNext ==
    /\ ( /\ UpdaterRuns # <<>> /\ Gets # <<>> /\ Updates # <<>>
         /\ Gets[1].ok /\ Updates[1].ok
         /\ HoldsCount(pre.sheet, UpdaterRuns[1].id) )
          => LET id == UpdaterRuns[1].id
                 c  == StoredCount(pre.sheet, id)
             IN  /\ result = [kind |-> "Ok", count |-> c + 1]
                 /\ CellC(sheet, id + 2) = StringOfInt(c + 1)
    /\ streak.n > 0 =>
          /\ StoredCount(sheet, streak.id) = streak.n
          /\ UpdaterRuns # <<>> => result = [kind |-> "Ok", count |-> streak.n]

\* student 2 was incremented twice in a row from 0
C3_Witness ==
    /\ streak = [id |-> 2, n |-> 2]
    /\ result = [kind |-> "Ok", count |-> 2]
    /\ CellC(sheet, 4) = <<"2">>

\* C4: updateAttendance with an index outside [0, MAX_STUDENTS) issues no
\* remote request, leaves the sheet unchanged and ends as InvalidStudent.
C4_InvalidStudentNoRequest ==
    (UpdaterRuns # <<>> /\ UpdaterRuns[1].id \notin Students) =>
        /\ RemoteRequests(calls) = <<>>
        /\ sheet = pre.sheet
        /\ result.kind = "InvalidStudent"

\* the updater was called with the first index past the range
C4_Witness ==
    /\ UpdaterRuns # <<>> /\ UpdaterRuns[1].id = MAX_STUDENTS
    /\ result.kind = "InvalidStudent"

\* C5: when the read fails or finds no parsable integer, updateAttendance
\* goes on with 0 as the count and issues the write of 1 to the same cell,
\* whatever the cell held.
C5_ReadFailureWritesOne ==
    ( /\ UpdaterRuns # <<>> /\ UpdaterRuns[1].id \in Students /\ Gets # <<>>
      /\ ~Gets[1].ok \/ ~Parsable(CellC(pre.sheet, UpdaterRuns[1].id + 2)) )
       => /\ Updates # <<>>
          /\ Updates[1].range = Gets[1].range
          /\ Updates[1].value = StringOfInt(1)
          /\ Updates[1].ok =>
                /\ CellC(sheet, UpdaterRuns[1].id + 2) = StringOfInt(1)
                /\ result = [kind |-> "Ok", count |-> 1]

\* a failed read of a cell that held more than 1, followed by the write of 1
C5_Witness ==
    /\ UpdaterRuns # <<>> /\ Gets # <<>> /\ Updates # <<>>
    /\ ~Gets[1].ok /\ Updates[1].ok
    /\ StoredCount(pre.sheet, UpdaterRuns[1].id) > 1
    /\ CellC(sheet, UpdaterRuns[1].id + 2) = <<"1">>

\* C6: when the read succeeds and the write fails, updateAttendance reports
\* RemoteWriteFailed and the sheet, so the student's count, is as before.
C6_WriteFailureKeepsCount ==
    ( /\ UpdaterRuns # <<>> /\ Gets # <<>> /\ Updates # <<>>
      /\ Gets[1].ok /\ ~Updates[1].ok )
       => /\ result.kind = "RemoteWriteFailed"
          /\ sheet = pre.sheet

\* the write failed after a successful read of the count 1
C6_Witness ==
    /\ UpdaterRuns # <<>> /\ Gets # <<>> /\ Updates # <<>>
    /\ Gets[1].ok /\ ~Updates[1].ok
    /\ HoldsCount(pre.sheet, UpdaterRuns[1].id)
    /\ StoredCount(sheet, UpdaterRuns[1].id) = 1
    /\ result.kind = "RemoteWriteFailed"

\* C7: once the system is initialized, every student's stored count is a
\* non-negative integer that no run of loop() decreases.
C7_CountsNeverDecrease ==
    LoopRan =>
        \A id \in Students :
            /\ StoredCount(sheet, id) >= 0
            /\ StoredCount(sheet, id) >= StoredCount(pre.sheet, id)

\* C8: a run of loop() that emits Arrived runs updateAttendance exactly
\* once; a run that emits Removed runs no updater, issues no remote request
\* and changes nothing but cardPresent, which becomes false.
C8_OneUpdatePerArrival ==
    /\ event = "Arrived" => Len(UpdaterRuns) = 1
    /\ event = "Removed" =>
          /\ UpdaterRuns = <<>>
          /\ RemoteRequests(calls) = <<>>
          /\ sheet = pre.sheet
          /\ pre.cardPresent /\ ~cardPresent
          /\ isSystemInitialized
    /\ LoopRan /\ event = "None" => UpdaterRuns = <<>>

\* a card was taken, its one update ran, and its removal is now seen
C8_Witness ==
    /\ event = "Removed" /\ scans = 1
    /\ UpdaterRuns = <<>> /\ sheet = pre.sheet

\* C9: updateAttendance with a valid index issues exactly one get and then
\* one update, both on cell C<index + 2>, whether or not the get succeeded;
\* every other cell of the sheet is as before.
C9_OneReadOneWriteSameCell ==
    (UpdaterRuns # <<>> /\ UpdaterRuns[1].id \in Students) =>
        LET id == UpdaterRuns[1].id
            rq == RemoteRequests(calls)
        IN  /\ Len(rq) = 2
            /\ rq[1].op = "get" /\ rq[2].op = "update"
            /\ rq[1].range = Range("C", id + 2)
            /\ rq[2].range = Range("C", id + 2)
            /\ \A row \in 1..(IF Len(sheet) > Len(pre.sheet)
                              THEN Len(sheet) ELSE Len(pre.sheet)) :
                 \A col \in 1..3 :
                    (row # id + 2 \/ col # 3)
                       => Cell(sheet, row, col) = Cell(pre.sheet, row, col)

\* the get failed and the update still went to the same cell, of student 4
C9_Witness ==
    /\ UpdaterRuns # <<>> /\ UpdaterRuns[1].id = 4
    /\ Gets # <<>> /\ ~Gets[1].ok
    /\ Updates # <<>> /\ Updates[1].ok /\ Updates[1].range = Range("C", 6)
    /\ CellC(sheet, 6) # CellC(pre.sheet, 6)

\* C10: every remote request of a run (of setup() or of loop()) comes after
\* a ready() call of that run that answered true; a run of loop() in which
\* ready() answers false issues no remote request.
C10_ReadyGatesRequests ==
    /\ \A i \in 1..Len(calls) :
          calls[i].op \in RemoteOps =>
              \E j \in 1..(i - 1) : calls[j].op = "ready" /\ calls[j].ok
    /\ (\E j \in 1..Len(calls) : calls[j].op = "ready" /\ ~calls[j].ok)
          => RemoteRequests(calls) = <<>>

\* a run of loop() passed the gate and issued the two requests of an update
C10_Witness ==
    /\ LoopRan /\ event = "Arrived"
    /\ calls[1].op = "ready" /\ calls[1].ok
    /\ Len(RemoteRequests(calls)) = 2

\* the last run of loop() asked ready() and was answered false
NotReadyRun == \E j \in 1..Len(calls) : calls[j].op = "ready" /\ ~calls[j].ok

\* what the next run of loop() does when it is given the answers in
NextRun(in) == loop(isSystemInitialized, cardPresent, sheet, in)

C12_ErrorsDoNotStopLoop ==
    (pc = "loop" /\ (isSystemInitialized \/ Polled(calls)))
        => /\ isSystemInitialized
           /\ \A in \in LoopInputs(cardPresent) :
                 (in.ready /\ (cardPresent \/ ~in.serialReadOk))
                     => Polled(NextRun(in).calls)

\* the first card's update failed and left the sheet as setup() made it; the
\* loop went on, took a second card, and both its requests failed too
C12_Witness ==
    /\ LoopRan /\ scans = 2 /\ event = "Arrived"
    /\ pre.sheet = FreshSheet
    /\ result.kind = "RemoteWriteFailed"
    /\ Gets # <<>> /\ ~Gets[1].ok

\* the sheet as the addressing of line 170 takes it to be: the header in row
\* 1 and the record of student id in row id + 2
RowOf(id) == id + 2

\* C13: once isSystemInitialized is true, row 1 is the header and row id + 2
\* is the record of student id, whose third cell is the count, 0 when
\* setup() has just run -- whatever the clear and append requests of
\* initializeSpreadsheet() answered.
C13_RowsAddressStudents ==
    isSystemInitialized
        => /\ Len(sheet) >= MAX_STUDENTS + 1
           /\ sheet[1] = HeaderRow
           /\ \A id \in Students :
                 /\ sheet[RowOf(id)][1] = StudentRow(id, 0)[1]
                 /\ sheet[RowOf(id)][2] = StudentRow(id, 0)[2]
                 /\ pc = "loop" /\ Entries(calls, "clear") # <<>>
                       => sheet[RowOf(id)] = StudentRow(id, 0)


\* the positions in the log of the last run of the calls of op
Positions(op) == {j \in 1..Len(calls) : calls[j].op = op}

\* the calls that poll the reader or belong to the updater
BeforeRelease ==
    {"ready", "PICC_IsNewCardPresent", "PICC_ReadCardSerial",
     "updateAttendance", "get", "update"}

\* C14: a run of loop() that yields Arrived releases the card exactly once:
\* one PICC_HaltA and then one PCD_StopCrypto1, as the last two calls of the
\* run, so after the updater has returned (whatever it reports) and before
\* any later poll of the reader.  A run that yields no Arrived releases
\* nothing.
C14_ReleasedOnceAfterUpdate ==
    LoopRan =>
        IF event = "Arrived"
        THEN /\ Len(calls) >= 5
             /\ Positions("PICC_HaltA") = {Len(calls) - 1}
             /\ Positions("PCD_StopCrypto1") = {Len(calls)}
             /\ UpdaterRuns # <<>>
             /\ \A j \in 1..(Len(calls) - 2) : calls[j].op \in BeforeRelease
        ELSE Positions("PICC_HaltA") = {} /\ Positions("PCD_StopCrypto1") = {}

\* a card whose update failed is released all the same
C14_Witness ==
    /\ LoopRan /\ event = "Arrived"
    /\ result.kind = "RemoteWriteFailed"
    /\ calls[Len(calls) - 1].op = "PICC_HaltA"
    /\ calls[Len(calls)].op = "PCD_StopCrypto1"


\* C15: delivery is at most once.  A run of loop() issues at most one update,
\* and remote requests only when it yields Arrived; an update that failed is
\* the last remote request of its run and leaves the sheet as it was; and a
\* run that yields no Arrived issues no remote request and leaves the sheet
\* as it was, so nothing is retried or compensated before the next Arrived.
C15_AtMostOnce ==
    LoopRan =>
        /\ Len(Updates) <= 1
        /\ Len(RemoteRequests(calls)) <= 2
        /\ event # "Arrived"
              => RemoteRequests(calls) = <<>> /\ sheet = pre.sheet
        /\ result.kind = "RemoteWriteFailed"
              => /\ sheet = pre.sheet
                 /\ RemoteRequests(calls)[Len(RemoteRequests(calls))]
                        = Updates[1]
                 /\ ~Updates[1].ok

\* the only card so far had its update fail; a later run, which found the
\* card gone, requested nothing and the sheet is still as setup() made it
C15_Witness ==
    /\ LoopRan /\ event = "Removed" /\ scans = 1
    /\ sheet = FreshSheet
    /\ RemoteRequests(calls) = <<>>

\* C16: cardPresent is false until loop() first runs and is changed only by
\* the two branches of lines 238-255: to true with Arrived, whatever the
\* updater reports, and to false with Removed.  A run that is skipped, the
\* system being uninitialized or ready() answering false, polls nothing,
\* yields no event and leaves cardPresent as it was.
C16_CardPresentFrame ==
    /\ pc = "setup" => ~cardPresent
    /\ pc = "loop" =>
          /\ cardPresent # pre.cardPresent
                => \/ event = "Arrived" /\ cardPresent
                   \/ event = "Removed" /\ ~cardPresent
          /\ event = "Arrived" => cardPresent
          /\ event = "Removed" => ~cardPresent
          /\ (~isSystemInitialized \/ NotReadyRun)
                => /\ ~Polled(calls)
                   /\ Entries(calls, "PICC_ReadCardSerial") = <<>>
                   /\ event = "None"
                   /\ cardPresent = pre.cardPresent

\* a run is skipped while a card is being processed: cardPresent stays true
C16_Witness ==
    /\ LoopRan /\ NotReadyRun /\ ~Polled(calls)
    /\ pre.cardPresent /\ cardPresent

\* C17: every updateAttendance() that loop() starts is given an index of
\* 0..MAX_STUDENTS-1, so it passes the range check and never reports
\* InvalidStudent.
C17_LoopPassesValidIndex ==
    pc = "loop" =>
        /\ \A j \in 1..Len(UpdaterRuns) : UpdaterRuns[j].id \in Students
        /\ result.kind # "InvalidStudent"

\* the last student of the list is drawn and updated
C17_Witness ==
    /\ LoopRan /\ event = "Arrived" /\ result.kind = "Ok"
    /\ UpdaterRuns[1].id = MAX_STUDENTS - 1

\* C18: the serial of the card does not matter.  The twin run is given the
\* same samples, draws and request outcomes as this run but every card it
\* reads has another serial; it issues the same remote requests, for the same
\* students, and its store and its two flags are those of this run.
C18_SerialDoesNotMatter ==
    /\ twin.requests = RemoteRequests(calls)
    /\ twin.sheet = sheet
    /\ twin.cardPresent = cardPresent
    /\ twin.isSystemInitialized = isSystemInitialized

\* two cards have been read in both runs, with different serials, and the
\* second update changed both stores alike
C18_Witness ==
    /\ LoopRan /\ event = "Arrived" /\ scans = 2
    /\ result.kind = "Ok" /\ sheet # pre.sheet
    /\ twin.sheet = sheet
    /\ Len(twin.requests) = 2


\* the operations of the remote requests of c, in the order they were issued
RequestOps(c) == [j \in 1..Len(RemoteRequests(c)) |-> RemoteRequests(c)[j].op]

\* both updaters are done, they had the same student, no request failed
RaceDone ==
    /\ pc = "race"
    /\ \A u \in Updaters : race.at[u] = "done"
    /\ \A u, v \in Updaters : race.studentIndex[u] = race.studentIndex[v]
    /\ \A j \in 1..Len(calls) : calls[j].ok

\* C19: the increment is a get followed by an update and is not atomic.  Two
\* updaters of one cell whose requests all succeed leave the count at c + 1
\* when both gets come before both updates, and at c + 2 when one updater is
\* done before the other starts.  In the program itself a run of loop()
\* issues either no remote request or one get followed by one update of the
\* same cell, so no increment is interleaved with another.
C19_LostUpdateWhenInterleaved ==
    /\ RaceDone =>
          StoredCount(sheet, race.studentIndex[1])
              = StoredCount(pre.sheet, race.studentIndex[1])
                  + (IF RequestOps(calls) = <<"get", "get", "update", "update">>
                     THEN 1 ELSE 2)
    /\ LoopRan =>
          \/ RemoteRequests(calls) = <<>>
          \/ /\ RequestOps(calls) = <<"get", "update">>
             /\ Gets[1].range = Updates[1].range
             /\ Gets[1].id = Updates[1].id

\* get, get, update, update on the cell of one student: one increment is lost
C19_Witness ==
    /\ RaceDone
    /\ RequestOps(calls) = <<"get", "get", "update", "update">>
    /\ StoredCount(pre.sheet, race.studentIndex[1]) = 2
    /\ StoredCount(sheet, race.studentIndex[1]) = 3


\* C20 as stated: every insertion of a card that stays on the reader through
\* at least one run of loop() of the initialized system has produced exactly
\* one Arrived when the card is taken away, and every removal after which
\* the card stays away through at least one such run has produced exactly
\* one Removed when a card is next put on the reader.
C20_OneEventPerMovement ==
    /\ (~phys.on /\ phys.runs = 1) => phys.arrived = 1
    /\ (phys.on /\ phys.awayRuns = 1) => phys.removed = 1

\* C20, amended: an insertion produces one Arrived if some run of loop()
\* polled the reader while the card was on it and cardPresent was false, and
\* none otherwise; a removal produces one Removed if some run polled the
\* reader while the card was away and cardPresent was true, and none
\* otherwise.
C20_OneEventPerObservedMovement ==
    /\ phys.arrived = (IF phys.fresh THEN 1 ELSE 0)
    /\ phys.removed = (IF phys.stale THEN 1 ELSE 0)

\* a second card was put on the reader, polled while cardPresent was false
\* and taken once; its removal was polled and yielded Removed
C20_Witness ==
    /\ ~phys.on /\ phys.taken /\ scans = 2
    /\ phys.fresh /\ phys.arrived = 1
    /\ phys.stale /\ phys.removed = 1
    /\ event = "Removed"


\* C21: Arrived and Removed alternate, the first event being Arrived: no
\* event follows one of its own kind.  cardPresent is true exactly when the
\* event emitted last is Arrived, so an Arrived, and with it an increment, is
\* emitted only when no event has been emitted yet or the last one was
\* Removed.
C21_EventsAlternate ==
    /\ ~emitted.broken
    /\ cardPresent <=> emitted.last = "Arrived"
    /\ (pc = "loop" /\ event = "Arrived") => ~pre.cardPresent
    /\ (pc = "loop" /\ event = "Removed") => pre.cardPresent

\* Arrived, Removed, Arrived: the second card is taken after the first one
\* was seen to be gone
C21_Witness ==
    /\ LoopRan /\ event = "Arrived" /\ scans = 2
    /\ emitted.last = "Arrived" /\ cardPresent


\* setup() has just returned: its log starts with the calls of WiFi.status()
SetupRan == pc = "loop" /\ Entries(calls, "WiFi.status") # <<>>

\* C22: isSystemInitialized is false until setup() has run.  setup() leaves
\* it true exactly when WiFi.status() answered WL_CONNECTED at line 77, after
\* at most WIFI_MAX_ATTEMPTS attempts, and GSheet.ready() answered true, and
\* then initializeSpreadsheet() has issued its clear and its appends before;
\* when it leaves it false, setup() has issued no remote request, and it has
\* not asked ready() if WiFi failed.  No run of loop() changes the flag; and
\* while it is false every run of loop(), whatever ready() and the reader
\* would answer, calls nothing and changes nothing.
C22_InitializedOnlyBySetup ==
    /\ pc = "setup" => ~isSystemInitialized
    /\ SetupRan =>
          LET status == Entries(calls, "WiFi.status")
              ready == Entries(calls, "ready")
              connected == status[Len(status)].ok
          IN  /\ Len(status) <= WIFI_MAX_ATTEMPTS + 2
              /\ ~pre.isSystemInitialized
              /\ isSystemInitialized
                    <=> (connected /\ ready # <<>> /\ ready[1].ok)
              /\ ~connected => ready = <<>>
              /\ isSystemInitialized
                    => /\ Len(Entries(calls, "clear")) = 1
                       /\ Len(Entries(calls, "append")) = MAX_STUDENTS + 1
                       /\ calls[Len(calls)].op = "append"
              /\ ~isSystemInitialized
                    => RemoteRequests(calls) = <<>> /\ sheet = pre.sheet
    /\ (pc = "loop" /\ ~SetupRan)
          => isSystemInitialized = pre.isSystemInitialized
    /\ (pc = "loop" /\ ~isSystemInitialized)
          => /\ SetupRan \/ (calls = <<>> /\ sheet = pre.sheet)
             /\ event = "None" /\ ~cardPresent
             /\ \A in \in LoopInputs(cardPresent) :
                   \E r \in {NextRun(in)} :
                       /\ r.calls = <<>>
                       /\ ~r.isSystemInitialized
                       /\ r.sheet = sheet

\* WiFi did not connect within the attempts of setup(); loop() has run
\* since, called nothing, and the flag is still false
C22_Witness ==
    /\ pc = "loop" /\ ~SetupRan
    /\ ~isSystemInitialized /\ ~pre.isSystemInitialized
    /\ calls = <<>> /\ sheet = OldSheet

============================================================================
